---- MODULE Spec2Model ----
(***************************************************************************)
(* Model of the lexical analyser of compilador.py (class Lexer).           *)
(*                                                                         *)
(* A source text is a sequence of one-character strings.  The Lexer        *)
(* object is the four fields source, pos, current_char and line; pos is    *)
(* 0-based as in the code, so source[pos] of the code is source[pos + 1]   *)
(* here.  Every private method of the Lexer is an operator on a cursor     *)
(* record [pos, current_char, line] that returns the cursor it leaves      *)
(* behind, and get_next_token is the single action of the machine.         *)
(* The modelled alphabet is ASCII.                                         *)
(***************************************************************************)
EXTENDS Integers, Sequences, FiniteSets, TLC

VARIABLES source, pos, current_char, line, ret, out

vars == <<source, pos, current_char, line, ret, out>>

(***************************************************************************)
(* Bounds.                                                                 *)
(***************************************************************************)
MaxLen == 4
NumLen == 6
IdLen == 5
LitLen == 5
ComLen == 5
OpLen == 4
SuffixLen == 1
MaxExtra == 2

(***************************************************************************)
(* Characters.                                                             *)
(***************************************************************************)
None == "None"

NL == "\n"

TAB == "\t"

QUOTE == "'"

UpperSeq == <<"A", "B", "C", "D", "E", "F", "G", "H", "I", "J", "K", "L", "M",
              "N", "O", "P", "Q", "R", "S", "T", "U", "V", "W", "X", "Y", "Z">>

LowerSeq == <<"a", "b", "c", "d", "e", "f", "g", "h", "i", "j", "k", "l", "m",
              "n", "o", "p", "q", "r", "s", "t", "u", "v", "w", "x", "y", "z">>

Digits == {"0", "1", "2", "3", "4", "5", "6", "7", "8", "9"}

Range(f) == {f[i] : i \in DOMAIN f}

\* str.isalpha() on one ASCII character
IsAlpha(c) == c \in Range(UpperSeq) \cup Range(LowerSeq)

\* str.isdigit() on one ASCII character
IsDigit(c) == c \in Digits

\* str.isalnum() on one ASCII character
IsAlnum(c) == IsAlpha(c) \/ IsDigit(c)

\* str.upper() on one character
UpperChar(c) ==
    IF c \in Range(LowerSeq)
    THEN UpperSeq[CHOOSE i \in DOMAIN LowerSeq : LowerSeq[i] = c]
    ELSE c

\* str.lower() on one character
LowerChar(c) ==
    IF c \in Range(UpperSeq)
    THEN LowerSeq[CHOOSE i \in DOMAIN UpperSeq : UpperSeq[i] = c]
    ELSE c

\* str.upper() on a lexeme
Upper(s) == [i \in 1..Len(s) |-> UpperChar(s[i])]

(***************************************************************************)
(* Token types and the Token record.                                       *)
(***************************************************************************)
ID == "ID"
NUM == "NUM"
LITERAL == "LITERAL"
CAR == "CAR"
OPASIGNA == "OPASIGNA"
OPREL == "OPREL"
OPSUMA == "OPSUMA"
OPMULT == "OPMULT"
PONTO == "PONTO"
PONTO_VIRG == "PONTO_VIRG"
VIRGULA == "VIRGULA"
DOIS_PONTOS == "DOIS_PONTOS"
ABRE_PAR == "ABRE_PAR"
FECHA_PAR == "FECHA_PAR"
ABRE_COL == "ABRE_COL"
FECHA_COL == "FECHA_COL"
EOF == "EOF"

Token(tipo, lexema, linha) == [tipo |-> tipo, lexema |-> lexema, linha |-> linha]

\* the value of "no token was returned" (the call raised)
NoToken == Token("NoToken", <<>>, 0)

\* The reserved words, as (uppercase text, token type) pairs.
RESERVED_KEYWORDS ==
    { <<<<"P", "R", "O", "G", "R", "A", "M">>, "PROGRAM">>,
      <<<<"V", "A", "R">>, "VAR">>,
      <<<<"B", "E", "G", "I", "N">>, "BEGIN">>,
      <<<<"E", "N", "D">>, "END">>,
      <<<<"I", "F">>, "IF">>,
      <<<<"T", "H", "E", "N">>, "THEN">>,
      <<<<"E", "L", "S", "E">>, "ELSE">>,
      <<<<"W", "H", "I", "L", "E">>, "WHILE">>,
      <<<<"D", "O">>, "DO">> }

KeywordTexts == {kw[1] : kw \in RESERVED_KEYWORDS}

\* RESERVED_KEYWORDS.get(text): the token type, or None
KeywordGet(text) ==
    IF text \in KeywordTexts
    THEN (CHOOSE kw \in RESERVED_KEYWORDS : kw[1] = text)[2]
    ELSE None

\* the dictionary single_char_tokens of get_next_token
single_char_tokens ==
    { <<"<", OPREL>>, <<">", OPREL>>, <<"=", OPREL>>,
      <<"+", OPSUMA>>, <<"-", OPSUMA>>,
      <<"*", OPMULT>>, <<"/", OPMULT>>,
      <<";", PONTO_VIRG>>, <<",", VIRGULA>>, <<".", PONTO>>,
      <<":", DOIS_PONTOS>>,
      <<"(", ABRE_PAR>>, <<")", FECHA_PAR>>,
      <<"[", ABRE_COL>>, <<"]", FECHA_COL>> }

SingleCharGet(c) ==
    IF \E e \in single_char_tokens : e[1] = c
    THEN (CHOOSE e \in single_char_tokens : e[1] = c)[2]
    ELSE None

(***************************************************************************)
(* Errors.  _error raises Exception with a message that starts with the    *)
(* current line; the four messages are the four lexical error kinds.  A    *)
(* TypeError is what Python raises for `None in '+-'`.                     *)
(***************************************************************************)
NoError == "NoError"
UnterminatedComment == "UnterminatedComment"
UnterminatedLiteral == "UnterminatedLiteral"
MalformedNumber == "MalformedNumber"
UnexpectedCharacter == "UnexpectedCharacter"
TypeError == "TypeError"

\* the errors raised through _error, whose message carries self.line
LexicalErrors ==
    {UnterminatedComment, UnterminatedLiteral, MalformedNumber, UnexpectedCharacter}

(***************************************************************************)
(* Cursor primitives.                                                      *)
(***************************************************************************)
CharAt(s, p) == IF p >= Len(s) THEN None ELSE s[p + 1]

Cursor(p, c, l) == [pos |-> p, current_char |-> c, line |-> l]

\* Advance that counts a line when it arrives on a newline
Advance_LineOnArrival(s, cur) ==
    Cursor(cur.pos + 1,
           CharAt(s, cur.pos + 1),
           IF CharAt(s, cur.pos + 1) = NL THEN cur.line + 1 ELSE cur.line)

\* Lexer._advance
Advance(s, cur) ==
    Cursor(cur.pos + 1,
           CharAt(s, cur.pos + 1),
           IF cur.current_char = NL THEN cur.line + 1 ELSE cur.line)

\* Lexer._peek
Peek(s, cur) == CharAt(s, cur.pos + 1)

IsSpace(c) == c \in {" ", TAB, NL}

\* Lexer._skip_whitespace
RECURSIVE SkipWhitespace(_, _)
SkipWhitespace(s, cur) ==
    IF cur.current_char # None /\ IsSpace(cur.current_char)
    THEN SkipWhitespace(s, Advance(s, cur))
    ELSE cur

(***************************************************************************)
(* Comments.  _skip_comment returns True after a comment, False when the   *)
(* cursor is not on a comment opener, and raises on end of input.          *)
(***************************************************************************)
SkipResult(cur, skipped, exc) == [cur |-> cur, skipped |-> skipped, exc |-> exc]

\* while self.current_char is not None and self.current_char != '}'
RECURSIVE ScanToBrace(_, _)
ScanToBrace(s, cur) ==
    IF cur.current_char # None /\ cur.current_char # "}"
    THEN ScanToBrace(s, Advance(s, cur))
    ELSE cur

\* AtStarParen that takes any '*' for the closer
AtStarParen_StarOnly(s, cur) == cur.current_char = "*"

\* the test that leaves the loop of a (* comment
AtStarParen(s, cur) == cur.current_char = "*" /\ Peek(s, cur) = ")"

\* while self.current_char is not None: if at '*' ')' break; advance
RECURSIVE ScanToStarParen(_, _)
ScanToStarParen(s, cur) ==
    IF cur.current_char # None /\ ~AtStarParen(s, cur)
    THEN ScanToStarParen(s, Advance(s, cur))
    ELSE cur

\* the test that opens a (* comment
AtParenStar(s, cur) == cur.current_char = "(" /\ Peek(s, cur) = "*"

\* SkipComment that leaves the cursor on the '}' that closes a comment
SkipComment_NoClose(s, cur) ==
    IF cur.current_char = "{"
    THEN LET e == ScanToBrace(s, Advance(s, cur))
         IN  IF e.current_char = None
             THEN SkipResult(e, FALSE, UnterminatedComment)
             ELSE SkipResult(e, TRUE, NoError)
    ELSE IF AtParenStar(s, cur)
    THEN LET e == ScanToStarParen(s, Advance(s, Advance(s, cur)))
         IN  IF e.current_char = None
             THEN SkipResult(e, FALSE, UnterminatedComment)
             ELSE SkipResult(Advance(s, Advance(s, e)), TRUE, NoError)
    ELSE SkipResult(cur, FALSE, NoError)

\* SkipComment that looks for the closer right after the '(' of the opener
SkipComment_ReuseStar(s, cur) ==
    IF cur.current_char = "{"
    THEN LET e == ScanToBrace(s, Advance(s, cur))
         IN  IF e.current_char = None
             THEN SkipResult(e, FALSE, UnterminatedComment)
             ELSE SkipResult(Advance(s, e), TRUE, NoError)
    ELSE IF AtParenStar(s, cur)
    THEN LET e == ScanToStarParen(s, Advance(s, cur))
         IN  IF e.current_char = None
             THEN SkipResult(e, FALSE, UnterminatedComment)
             ELSE SkipResult(Advance(s, Advance(s, e)), TRUE, NoError)
    ELSE SkipResult(cur, FALSE, NoError)

\* SkipComment without the end-of-input check of the '{' comment
SkipComment_NoEofCheck(s, cur) ==
    IF cur.current_char = "{"
    THEN LET e == ScanToBrace(s, Advance(s, cur))
         IN  SkipResult(Advance(s, e), TRUE, NoError)
    ELSE IF AtParenStar(s, cur)
    THEN LET e == ScanToStarParen(s, Advance(s, Advance(s, cur)))
         IN  IF e.current_char = None
             THEN SkipResult(e, FALSE, UnterminatedComment)
             ELSE SkipResult(Advance(s, Advance(s, e)), TRUE, NoError)
    ELSE SkipResult(cur, FALSE, NoError)

\* Lexer._skip_comment
SkipComment(s, cur) ==
    IF cur.current_char = "{"
    THEN LET e == ScanToBrace(s, Advance(s, cur))
         IN  IF e.current_char = None
             THEN SkipResult(e, FALSE, UnterminatedComment)
             ELSE SkipResult(Advance(s, e), TRUE, NoError)
    ELSE IF AtParenStar(s, cur)
    THEN LET e == ScanToStarParen(s, Advance(s, Advance(s, cur)))
         IN  IF e.current_char = None
             THEN SkipResult(e, FALSE, UnterminatedComment)
             ELSE SkipResult(Advance(s, Advance(s, e)), TRUE, NoError)
    ELSE SkipResult(cur, FALSE, NoError)

(***************************************************************************)
(* What one call of get_next_token leaves behind: the cursor, the         *)
(* exception raised (NoError when it returned), the line of the error      *)
(* message (0 when the exception has none), the token returned, the offset *)
(* at which the recognition of a token began (-1 when the call ended in    *)
(* the skipping loop), the state in which the number machine stopped (-1   *)
(* when it did not run) and the comments skipped, as <<first, end>>        *)
(* offsets.                                                                *)
(***************************************************************************)
Outcome(cur, exc, token, start, state) ==
    [cur |-> cur, exc |-> exc,
     excLine |-> IF exc \in LexicalErrors THEN cur.line ELSE 0,
     token |-> token, start |-> start, state |-> state, comments |-> <<>>]

Returns(cur, token, start) == Outcome(cur, NoError, token, start, -1)

Raises(cur, exc, start) == Outcome(cur, exc, NoToken, start, -1)

(***************************************************************************)
(* Identifiers and reserved words.                                         *)
(***************************************************************************)
\* InIdRun that continues on letters only
InIdRun_LettersOnly(c) == c # None /\ IsAlpha(c)

\* the loop test of _id_or_keyword
InIdRun(c) == c # None /\ IsAlnum(c)

\* while ...isalnum(): lexeme += self.current_char; self._advance()
RECURSIVE IdRun(_, _, _)
IdRun(s, cur, lexeme) ==
    IF InIdRun(cur.current_char)
    THEN IdRun(s, Advance(s, cur), Append(lexeme, cur.current_char))
    ELSE [cur |-> cur, lexeme |-> lexeme]

\* IdType that looks the lexeme up as written, without upper()
IdType_CaseSensitive(lexeme) ==
    LET token_type == KeywordGet(lexeme)
    IN  IF token_type # None THEN token_type ELSE ID

\* the classification at the end of _id_or_keyword
IdType(lexeme) ==
    LET token_type == KeywordGet(Upper(lexeme))
    IN  IF token_type # None THEN token_type ELSE ID

\* Lexer._id_or_keyword
IdOrKeyword(s, cur) ==
    LET e == IdRun(s, cur, <<>>)
    IN  Returns(e.cur, Token(IdType(e.lexeme), e.lexeme, cur.line), cur.pos)

(***************************************************************************)
(* Numbers: the finite state machine of _number.  A machine configuration  *)
(* is the cursor, the state 0..5, the lexeme and halt: "run" while the     *)
(* loop iterates, "accept" after break, or the exception raised.           *)
(***************************************************************************)
Config(cur, state, lexeme, halt) ==
    [cur |-> cur, state |-> state, lexeme |-> lexeme, halt |-> halt]

\* lexeme += c; self._advance(); state = next
Consume(s, m, next) ==
    Config(Advance(s, m.cur), next, Append(m.lexeme, m.cur.current_char), "run")

Halt(m, halt) == Config(m.cur, m.state, m.lexeme, halt)

\* c and c.isdigit()
CIsDigit(c) == c # None /\ IsDigit(c)

\* c and c.lower() == 'e'
CIsExp(c) == c # None /\ LowerChar(c) = "e"

\* State0 without the lookahead for the range operator
State0_NoRange(s, m) ==
    LET c == m.cur.current_char
    IN  IF CIsDigit(c) THEN Consume(s, m, 0)
        ELSE IF c = "." THEN Consume(s, m, 1)
        ELSE IF CIsExp(c) THEN Consume(s, m, 3)
        ELSE Halt(m, "accept")

\* state == 0: integer part
State0(s, m) ==
    LET c == m.cur.current_char
    IN  IF CIsDigit(c) THEN Consume(s, m, 0)
        ELSE IF c = "."
             THEN IF Peek(s, m.cur) = "." THEN Halt(m, "accept")
                  ELSE Consume(s, m, 1)
        ELSE IF CIsExp(c) THEN Consume(s, m, 3)
        ELSE Halt(m, "accept")

\* State1 that accepts the number when no digit follows the '.'
State1_SilentAccept(s, m) ==
    IF CIsDigit(m.cur.current_char) THEN Consume(s, m, 2)
    ELSE Halt(m, "accept")

\* state == 1: a digit is expected after '.'
State1(s, m) ==
    IF CIsDigit(m.cur.current_char) THEN Consume(s, m, 2)
    ELSE Halt(m, MalformedNumber)

\* state == 2: fractional part
State2(s, m) ==
    LET c == m.cur.current_char
    IN  IF CIsDigit(c) THEN Consume(s, m, 2)
        ELSE IF CIsExp(c) THEN Consume(s, m, 3)
        ELSE Halt(m, "accept")

\* state == 3: after 'e'; `c in '+-'` raises TypeError when c is None
State3(s, m) ==
    LET c == m.cur.current_char
    IN  IF c = None THEN Halt(m, TypeError)
        ELSE IF c \in {"+", "-"} THEN Consume(s, m, 4)
        ELSE IF CIsDigit(c) THEN Consume(s, m, 5)
        ELSE Halt(m, MalformedNumber)

\* state == 4: after the sign of the exponent
State4(s, m) ==
    IF CIsDigit(m.cur.current_char) THEN Consume(s, m, 5)
    ELSE Halt(m, MalformedNumber)

\* state == 5: exponent digits
State5(s, m) ==
    IF CIsDigit(m.cur.current_char) THEN Consume(s, m, 5)
    ELSE Halt(m, "accept")

\* one iteration of `while True` in _number
NumberStep(s, m) ==
    CASE m.state = 0 -> State0(s, m)
      [] m.state = 1 -> State1(s, m)
      [] m.state = 2 -> State2(s, m)
      [] m.state = 3 -> State3(s, m)
      [] m.state = 4 -> State4(s, m)
      [] m.state = 5 -> State5(s, m)

RECURSIVE NumberLoop(_, _)
NumberLoop(s, m) ==
    IF m.halt = "run" THEN NumberLoop(s, NumberStep(s, m)) ELSE m

\* Lexer._number
Number(s, cur) ==
    LET m == NumberLoop(s, Config(cur, 0, <<>>, "run"))
    IN  IF m.halt = "accept"
        THEN Outcome(m.cur, NoError, Token(NUM, m.lexeme, cur.line), cur.pos, m.state)
        ELSE Outcome(m.cur, m.halt, NoToken, cur.pos, m.state)

(***************************************************************************)
(* String and character literals.                                          *)
(***************************************************************************)
Lit(cur, content, halt) == [cur |-> cur, content |-> content, halt |-> halt]

\* LiteralStep that takes the end of input for the closing quote
LiteralStep_EofCloses(s, m) ==
    LET c == m.cur.current_char
    IN  IF c = None THEN Lit(m.cur, m.content, "accept")
        ELSE IF c = QUOTE
             THEN IF Peek(s, m.cur) = QUOTE
                  THEN Lit(Advance(s, Advance(s, m.cur)), Append(m.content, QUOTE), "run")
                  ELSE Lit(Advance(s, m.cur), m.content, "accept")
        ELSE Lit(Advance(s, m.cur), Append(m.content, c), "run")

\* LiteralStep that copies both quotes of an escaped pair
LiteralStep_KeepBothQuotes(s, m) ==
    LET c == m.cur.current_char
    IN  IF c = None THEN Lit(m.cur, m.content, UnterminatedLiteral)
        ELSE IF c = QUOTE
             THEN IF Peek(s, m.cur) = QUOTE
                  THEN Lit(Advance(s, Advance(s, m.cur)),
                           Append(Append(m.content, QUOTE), QUOTE), "run")
                  ELSE Lit(Advance(s, m.cur), m.content, "accept")
        ELSE Lit(Advance(s, m.cur), Append(m.content, c), "run")

\* one iteration of `while True` in _string_literal
LiteralStep(s, m) ==
    LET c == m.cur.current_char
    IN  IF c = None THEN Lit(m.cur, m.content, UnterminatedLiteral)
        ELSE IF c = QUOTE
             THEN IF Peek(s, m.cur) = QUOTE
                  THEN Lit(Advance(s, Advance(s, m.cur)), Append(m.content, QUOTE), "run")
                  ELSE Lit(Advance(s, m.cur), m.content, "accept")
        ELSE Lit(Advance(s, m.cur), Append(m.content, c), "run")

RECURSIVE LiteralLoop(_, _)
LiteralLoop(s, m) ==
    IF m.halt = "run" THEN LiteralLoop(s, LiteralStep(s, m)) ELSE m

\* LiteralType that also takes the empty content for a character
LiteralType_AtMostOne(content) == IF Len(content) <= 1 THEN CAR ELSE LITERAL

\* if len(content) == 1: CAR else: LITERAL
LiteralType(content) == IF Len(content) = 1 THEN CAR ELSE LITERAL

\* StringLiteral that stamps the token with the line at its closing quote
StringLiteral_EndLine(s, cur) ==
    LET m == LiteralLoop(s, Lit(Advance(s, cur), <<>>, "run"))
    IN  IF m.halt = "accept"
        THEN Returns(m.cur, Token(LiteralType(m.content), m.content, m.cur.line), cur.pos)
        ELSE Raises(m.cur, m.halt, cur.pos)

\* Lexer._string_literal
StringLiteral(s, cur) ==
    LET m == LiteralLoop(s, Lit(Advance(s, cur), <<>>, "run"))
    IN  IF m.halt = "accept"
        THEN Returns(m.cur, Token(LiteralType(m.content), m.content, cur.line), cur.pos)
        ELSE Raises(m.cur, m.halt, cur.pos)

(***************************************************************************)
(* Operators and punctuation.                                              *)
(***************************************************************************)
\* TwoCharOp without the test for '<='
TwoCharOp_NoLessEqual(s, cur) ==
    LET c == cur.current_char
        p == Peek(s, cur)
    IN  IF c = ":" /\ p = "=" THEN OPASIGNA
        ELSE IF c = "<" /\ p = ">" THEN OPREL
        ELSE IF c = ">" /\ p = "=" THEN OPREL
        ELSE None

\* the four two-character tests of get_next_token, in the order of the code
TwoCharOp(s, cur) ==
    LET c == cur.current_char
        p == Peek(s, cur)
    IN  IF c = ":" /\ p = "=" THEN OPASIGNA
        ELSE IF c = "<" /\ p = ">" THEN OPREL
        ELSE IF c = "<" /\ p = "=" THEN OPREL
        ELSE IF c = ">" /\ p = "=" THEN OPREL
        ELSE None

\* Operator that returns an unknown character as an identifier
Operator_UnknownAsId(s, cur) ==
    LET two == TwoCharOp(s, cur)
        one == SingleCharGet(cur.current_char)
    IN  IF two # None
        THEN Returns(Advance(s, Advance(s, cur)),
                     Token(two, <<cur.current_char, Peek(s, cur)>>, cur.line), cur.pos)
        ELSE IF one # None
        THEN Returns(Advance(s, cur), Token(one, <<cur.current_char>>, cur.line), cur.pos)
        ELSE Returns(Advance(s, cur), Token(ID, <<cur.current_char>>, cur.line), cur.pos)

\* Operator that returns a one-character token without consuming it
Operator_NoAdvance(s, cur) ==
    LET two == TwoCharOp(s, cur)
        one == SingleCharGet(cur.current_char)
    IN  IF two # None
        THEN Returns(Advance(s, Advance(s, cur)),
                     Token(two, <<cur.current_char, Peek(s, cur)>>, cur.line), cur.pos)
        ELSE IF one # None
        THEN Returns(cur, Token(one, <<cur.current_char>>, cur.line), cur.pos)
        ELSE Raises(cur, UnexpectedCharacter, cur.pos)

\* Operator that consumes the unknown character before it raises
Operator_SkipUnknown(s, cur) ==
    LET two == TwoCharOp(s, cur)
        one == SingleCharGet(cur.current_char)
    IN  IF two # None
        THEN Returns(Advance(s, Advance(s, cur)),
                     Token(two, <<cur.current_char, Peek(s, cur)>>, cur.line), cur.pos)
        ELSE IF one # None
        THEN Returns(Advance(s, cur), Token(one, <<cur.current_char>>, cur.line), cur.pos)
        ELSE Raises(Advance(s, cur), UnexpectedCharacter, cur.pos)

\* steps 6 and 7 of get_next_token
Operator(s, cur) ==
    LET two == TwoCharOp(s, cur)
        one == SingleCharGet(cur.current_char)
    IN  IF two # None
        THEN Returns(Advance(s, Advance(s, cur)),
                     Token(two, <<cur.current_char, Peek(s, cur)>>, cur.line), cur.pos)
        ELSE IF one # None
        THEN Returns(Advance(s, cur), Token(one, <<cur.current_char>>, cur.line), cur.pos)
        ELSE Raises(cur, UnexpectedCharacter, cur.pos)

(***************************************************************************)
(* get_next_token.                                                         *)
(***************************************************************************)
\* steps 3 to 7: the token that starts at the cursor
Dispatch(s, cur) ==
    LET c == cur.current_char
    IN  IF IsAlpha(c) THEN IdOrKeyword(s, cur)
        ELSE IF IsDigit(c) THEN Number(s, cur)
        ELSE IF c = QUOTE THEN StringLiteral(s, cur)
        ELSE Operator(s, cur)

\* EndOfInput that moves the cursor once more after the end
EndOfInput_Advancing(s, cur) ==
    Returns(Advance(s, cur), Token(EOF, <<"E", "O", "F">>, cur.line), -1)

\* return Token(EOF, 'EOF', self.line) once the loop has ended
EndOfInput(s, cur) == Returns(cur, Token(EOF, <<"E", "O", "F">>, cur.line), -1)

WithComments(o, comments) == [o EXCEPT !.comments = comments]

\* the main loop of get_next_token; comments are those skipped so far
RECURSIVE MainLoop(_, _, _)
MainLoop(s, cur, comments) ==
    IF cur.current_char = None
    THEN WithComments(EndOfInput(s, cur), comments)
    ELSE IF IsSpace(cur.current_char)
    THEN MainLoop(s, SkipWhitespace(s, cur), comments)
    ELSE IF cur.current_char \in {"{", "("}
    THEN LET k == SkipComment(s, cur)
         IN  IF k.exc # NoError THEN WithComments(Raises(k.cur, k.exc, -1), comments)
             ELSE IF k.skipped
             THEN MainLoop(s, k.cur, Append(comments, <<cur.pos, k.cur.pos>>))
             ELSE WithComments(Dispatch(s, cur), comments)
    ELSE WithComments(Dispatch(s, cur), comments)

\* Lexer.get_next_token
GetNextTokenOf(s, cur) == MainLoop(s, cur, <<>>)

(***************************************************************************)
(* The machine.  ret is what the last call left (InitRet before any call)  *)
(* and out is the list of what the calls so far returned or raised.        *)
(***************************************************************************)
InitRet == Raises(Cursor(0, None, 1), "NoCall", -1)

\* Lexer.__init__
InitLexer(src) ==
    /\ source = src
    /\ pos = 0
    /\ current_char = CharAt(src, 0)
    /\ line = 1
    /\ ret = InitRet
    /\ out = <<>>

\* one call of get_next_token by the parser
GetNextToken ==
    /\ Len(out) < Len(source) + MaxExtra
    /\ LET o == GetNextTokenOf(source, Cursor(pos, current_char, line))
       IN  /\ pos' = o.cur.pos
           /\ current_char' = o.cur.current_char
           /\ line' = o.cur.line
           /\ ret' = o
           /\ out' = Append(out, o)
    /\ UNCHANGED source

Next == GetNextToken

\* all the texts of length at most n over an alphabet
Texts(alphabet, n) == UNION {[1..k -> alphabet] : k \in 0..n}

MixedChars == {"a", "1", ".", QUOTE, "{", "}", "(", "*", ")", NL, "@"}

Init == \E src \in Texts(MixedChars, MaxLen) : InitLexer(src)

Spec == Init /\ [][Next]_vars

(***************************************************************************)
(* The other specifications run the same machine on source texts drawn     *)
(* from the alphabet of one part of the lexer.                             *)
(***************************************************************************)
NumChars == {"1", ".", "e", "E", "+"}

InitNum == \E src \in Texts(NumChars, NumLen) : InitLexer(src)

SpecNum == InitNum /\ [][Next]_vars

\* a word in every mix of upper and lower case
CaseVariants(w) ==
    {[i \in 1..Len(w) |-> IF b[i] THEN w[i] ELSE LowerChar(w[i])] :
        b \in [1..Len(w) -> BOOLEAN]}

KwSuffixChars == {" ", "1", "x", ";"}

InitKw ==
    \E w \in KeywordTexts : \E v \in CaseVariants(w) :
        \E suffix \in Texts(KwSuffixChars, SuffixLen) : InitLexer(v \o suffix)

SpecKw == InitKw /\ [][Next]_vars

IdChars == {"i", "f", "F", "1", "_", " "}

InitId == \E src \in Texts(IdChars, IdLen) : InitLexer(src)

SpecId == InitId /\ [][Next]_vars

LitChars == {QUOTE, "a", "1", NL}

InitLit == \E src \in Texts(LitChars, LitLen) : InitLexer(src)

SpecLit == InitLit /\ [][Next]_vars

ComChars == {"{", "}", "(", "*", ")", "a"}

InitCom == \E src \in Texts(ComChars, ComLen) : InitLexer(src)

SpecCom == InitCom /\ [][Next]_vars

OpChars == {":", "=", "<", ">", "a", " "}

InitOp == \E src \in Texts(OpChars, OpLen) : InitLexer(src)

SpecOp == InitOp /\ [][Next]_vars

OpaqueChars == {"{", "}", "(", "*", ")", QUOTE}

InitOpaque == \E src \in Texts(OpaqueChars, ComLen) : InitLexer(src)

SpecOpaque == InitOpaque /\ [][Next]_vars

(***************************************************************************)
(* A driver that calls get_next_token until it returns EOF or raises: the  *)
(* list of the outcomes of the calls, the last one included.               *)
(***************************************************************************)
RECURSIVE TokenizeFrom(_, _)
TokenizeFrom(s, cur) ==
    LET o == GetNextTokenOf(s, cur)
    IN  IF o.exc # NoError \/ o.token.tipo = EOF
        THEN <<o>>
        ELSE <<o>> \o TokenizeFrom(s, o.cur)

Tokenize(s) == TokenizeFrom(s, Cursor(0, CharAt(s, 0), 1))

\* what the parser sees of one call: the token type and lexeme, or the error
Seen(o) == IF o.exc # NoError THEN <<o.exc>> ELSE <<o.token.tipo, o.token.lexema>>

SeenAll(os) == [i \in 1..Len(os) |-> Seen(os[i])]

(***************************************************************************)
(* Properties.  They are stated on out, the outcomes of the calls made so  *)
(* far, and on the source text itself.                                     *)
(***************************************************************************)
Calls == DOMAIN out

IsReturn(o) == o.exc = NoError

IsEOF(o) == IsReturn(o) /\ o.token.tipo = EOF

\* the first offset at or after p whose character is not a digit
RECURSIVE DigitRunEnd(_, _)
DigitRunEnd(s, p) ==
    IF p < Len(s) /\ s[p + 1] \in Digits THEN DigitRunEnd(s, p + 1) ELSE p

AllDigits(l) == \A i \in DOMAIN l : l[i] \in Digits

\* "." digit+, or nothing
IsFraction(l) ==
    l = <<>> \/ (Len(l) >= 2 /\ l[1] = "." /\ AllDigits(Tail(l)))

\* ("e"|"E") ["+"|"-"] digit+, or nothing
IsExponent(l) ==
    \/ l = <<>>
    \/ /\ Len(l) >= 2
       /\ l[1] \in {"e", "E"}
       /\ \/ AllDigits(Tail(l))
          \/ Len(l) >= 3 /\ l[2] \in {"+", "-"} /\ AllDigits(Tail(Tail(l)))

\* digit+ [ "." digit+ ] [ ("e"|"E") ["+"|"-"] digit+ ]
IsNumberForm(l) ==
    \E i \in 1..Len(l) : \E j \in i..Len(l) :
        /\ AllDigits(SubSeq(l, 1, i))
        /\ IsFraction(SubSeq(l, i + 1, j))
        /\ IsExponent(SubSeq(l, j + 1, Len(l)))

\* C1: whenever the machine of _number stops in S1, S3 or S4 (the current
\* character is the end of input or matches no transition), the call fails
\* with MalformedNumber carrying the current line and returns no token.
C1_MalformedNumber ==
    \A i \in Calls :
        out[i].state \in {1, 3, 4} =>
            /\ out[i].exc = MalformedNumber
            /\ out[i].excLine = out[i].cur.line
            /\ out[i].token = NoToken

\* C2: once a call has returned EOF, every later call returns the same EOF
\* token (same line), raises nothing and leaves pos, current_char and line
\* as they were.
C2_EofIdempotent ==
    \A i \in Calls : \A j \in Calls :
        (i < j /\ IsEOF(out[i])) =>
            /\ IsEOF(out[j])
            /\ out[j].token.linha = out[i].token.linha
            /\ out[j].cur = out[i].cur

C2_Witness ==
    /\ Len(source) >= 2
    /\ \E i \in Calls : \E j \in Calls : i + 1 < j /\ IsEOF(out[i]) /\ IsEOF(out[j])

\* C3: when the digits of a number are followed by "..", the call returns
\* the Number token of the digits with the cursor left on the first dot, the
\* next two calls return one Period token per dot, and when the source is
\* exactly the digits and ".." the fourth call returns EOF.
C3_RangeLookahead ==
    \A i \in Calls :
        LET st == out[i].start
            e == DigitRunEnd(source, st)
        IN  (/\ st >= 0
             /\ source[st + 1] \in Digits
             /\ CharAt(source, e) = "."
             /\ CharAt(source, e + 1) = ".") =>
                /\ IsReturn(out[i])
                /\ out[i].token.tipo = NUM
                /\ out[i].token.lexema = SubSeq(source, st + 1, e)
                /\ out[i].cur.pos = e
                /\ (i + 1 \in Calls =>
                        /\ IsReturn(out[i + 1])
                        /\ out[i + 1].token.tipo = PONTO
                        /\ out[i + 1].token.lexema = <<".">>
                        /\ out[i + 1].start = e)
                /\ (i + 2 \in Calls =>
                        /\ IsReturn(out[i + 2])
                        /\ out[i + 2].token.tipo = PONTO
                        /\ out[i + 2].token.lexema = <<".">>
                        /\ out[i + 2].start = e + 1)
                /\ ((i + 3 \in Calls /\ st = 0 /\ e + 2 = Len(source)) =>
                        IsEOF(out[i + 3]))

C3_Witness ==
    /\ source = <<"1", "1", ".", ".">>
    /\ Len(out) = 4
    /\ out[1].token.lexema = <<"1", "1">>
    /\ IsEOF(out[4])

\* C4: the lexeme of every Number token is exactly the source characters the
\* call consumed, from the first digit to the cursor, and has the form
\* digit+ [ "." digit+ ] [ ("e"|"E") ["+"|"-"] digit+ ]; a source that has
\* this form scans to that single Number token.
C4_NumberLexeme ==
    /\ \A i \in Calls :
           (IsReturn(out[i]) /\ out[i].token.tipo = NUM) =>
               /\ out[i].start >= 0
               /\ out[i].token.lexema = SubSeq(source, out[i].start + 1, out[i].cur.pos)
               /\ IsNumberForm(out[i].token.lexema)
    /\ (IsNumberForm(source) /\ Len(out) >= 1) =>
           /\ IsReturn(out[1])
           /\ out[1].token = Token(NUM, source, 1)
           /\ out[1].cur.pos = Len(source)

C4_Witness ==
    /\ source = <<"1", ".", "1", "E", "+", "1">>
    /\ Len(out) >= 1
    /\ out[1].token = Token(NUM, source, 1)

\* the text between the quotes of a literal, with every pair of quotes
\* replaced by one quote
RECURSIVE Decode(_)
Decode(raw) ==
    IF raw = <<>> THEN <<>>
    ELSE IF Len(raw) >= 2 /\ raw[1] = QUOTE /\ raw[2] = QUOTE
    THEN <<QUOTE>> \o Decode(Tail(Tail(raw)))
    ELSE <<raw[1]>> \o Decode(Tail(raw))

\* the source text between the two delimiters of the literal of outcome o
RawContent(o) == SubSeq(source, o.start + 2, o.cur.pos - 1)

\* C5: a call that returns from a quoted literal returns a CAR token when
\* the decoded content has exactly one character and a LITERAL token
\* otherwise: 'a' gives CAR(a), 'a1a' gives LITERAL(a1a), '''' gives CAR(')
\* and '' gives LITERAL with the empty lexeme.
C5_LiteralClassification ==
    /\ \A i \in Calls :
           (/\ IsReturn(out[i])
            /\ out[i].start >= 0
            /\ source[out[i].start + 1] = QUOTE) =>
               /\ out[i].token.tipo \in {CAR, LITERAL}
               /\ out[i].token.tipo = CAR <=> Len(Decode(RawContent(out[i]))) = 1
               /\ out[i].token.tipo = CAR <=> Len(out[i].token.lexema) = 1
    /\ Len(out) >= 1 =>
           /\ source = <<QUOTE, "a", QUOTE>> => out[1].token = Token(CAR, <<"a">>, 1)
           /\ source = <<QUOTE, "a", "1", "a", QUOTE>> =>
                  out[1].token = Token(LITERAL, <<"a", "1", "a">>, 1)
           /\ source = <<QUOTE, QUOTE, QUOTE, QUOTE>> =>
                  out[1].token = Token(CAR, <<QUOTE>>, 1)
           /\ source = <<QUOTE, QUOTE>> => out[1].token = Token(LITERAL, <<>>, 1)

C5_Witness ==
    /\ source = <<QUOTE, QUOTE, QUOTE, QUOTE>>
    /\ Len(out) >= 1
    /\ out[1].token = Token(CAR, <<QUOTE>>, 1)
    /\ out[1].cur.pos = 4

\* the first offset at or after p whose character is neither letter nor digit
RECURSIVE AlnumRunEnd(_, _)
AlnumRunEnd(s, p) ==
    IF p < Len(s) /\ (IsAlpha(s[p + 1]) \/ s[p + 1] \in Digits)
    THEN AlnumRunEnd(s, p + 1)
    ELSE p

\* text is the uppercase word w written in some mix of upper and lower case
IsCaseVariant(text, w) ==
    /\ Len(text) = Len(w)
    /\ \A i \in 1..Len(w) : text[i] \in {w[i], LowerChar(w[i])}

IsReservedAnyCase(text) == \E w \in KeywordTexts : IsCaseVariant(text, w)

\* C6: when the source starts with a reserved word written in any mix of
\* upper and lower case, the first call returns one token whose type is the
\* type of that reserved word and whose lexeme is the word as written.
C6_KeywordAnyCase ==
    Len(out) >= 1 =>
        LET word == SubSeq(source, 1, AlnumRunEnd(source, 0))
        IN  \A kw \in RESERVED_KEYWORDS :
                IsCaseVariant(word, kw[1]) =>
                    /\ IsReturn(out[1])
                    /\ out[1].token = Token(kw[2], word, 1)
                    /\ out[1].cur.pos = Len(word)

C6_Witness ==
    /\ Len(out) >= 1
    /\ out[1].token.tipo = "WHILE"
    /\ out[1].token.lexema = <<"w", "H", "i", "L", "e">>

\* letter (letter | digit)*
IsIdentifierForm(text) ==
    /\ Len(text) >= 1
    /\ IsAlpha(text[1])
    /\ \A i \in DOMAIN text : IsAlpha(text[i]) \/ text[i] \in Digits

\* C7: a source of the form letter (letter|digit)* that is not a reserved
\* word in any casing scans to one ID token with the source as lexeme and
\* then EOF; and every token that starts on a letter has as lexeme the run
\* of letters and digits up to the first character that is neither (or the
\* end of input), where the cursor is left.
C7_Identifier ==
    /\ (IsIdentifierForm(source) /\ ~IsReservedAnyCase(source)) =>
           /\ Len(out) >= 1 => IsReturn(out[1]) /\ out[1].token = Token(ID, source, 1)
           /\ Len(out) >= 2 => IsEOF(out[2])
    /\ \A i \in Calls :
           (out[i].start >= 0 /\ IsAlpha(source[out[i].start + 1])) =>
               LET e == AlnumRunEnd(source, out[i].start)
               IN  /\ IsReturn(out[i])
                   /\ out[i].token.lexema = SubSeq(source, out[i].start + 1, e)
                   /\ out[i].cur.pos = e

C7_Witness ==
    /\ source = <<"i", "F", "f", "1">>
    /\ Len(out) >= 2
    /\ out[1].token = Token(ID, source, 1)
    /\ IsEOF(out[2])

\* the text s with the characters at offsets a .. b-1 replaced by c
Replace(s, a, b, c) == SubSeq(s, 1, a) \o <<c>> \o SubSeq(s, b + 1, Len(s))

\* the cursor from which call i started
CursorBefore(i) == IF i = 1 THEN Cursor(0, CharAt(source, 0), 1) ELSE out[i - 1].cur

\* C8: a terminated comment that a call skips produces no token (the token
\* of the call starts after the comment), and the types and lexemes that the
\* calls return from there on are those returned when the comment is
\* replaced by one space; "a{a}a" scans to ID(a), ID(a), EOF and "(**)a" to
\* ID(a), EOF.
C8_CommentTransparent ==
    /\ \A i \in Calls : \A k \in DOMAIN out[i].comments :
           LET a == out[i].comments[k][1]
               b == out[i].comments[k][2]
               spaced == Replace(source, a, b, " ")
               before == CursorBefore(i)
           IN  /\ out[i].start = -1 \/ out[i].start >= b
               /\ SeenAll(TokenizeFrom(source, before)) =
                  SeenAll(TokenizeFrom(spaced,
                                       Cursor(before.pos, CharAt(spaced, before.pos),
                                              before.line)))
    /\ source = <<"a", "{", "a", "}", "a">> =>
           SeenAll(Tokenize(source)) =
               <<<<ID, <<"a">>>>, <<ID, <<"a">>>>, <<EOF, <<"E", "O", "F">>>>>>
    /\ source = <<"(", "*", "*", ")", "a">> =>
           SeenAll(Tokenize(source)) = <<<<ID, <<"a">>>>, <<EOF, <<"E", "O", "F">>>>>>

C8_Witness ==
    /\ Len(out) = 3
    /\ out[1].token.tipo = ID
    /\ Len(out[2].comments) = 1
    /\ out[2].token.tipo = ID
    /\ IsEOF(out[3])

\* the number of newline characters among the first p characters of s
Newlines(s, p) == Cardinality({k \in 1..p : s[k] = NL})

\* C9: every token returned, EOF included, has as line 1 plus the number of
\* newline characters of the source before its first character (for EOF, of
\* the whole source), wherever those newlines are.
C9_LineTracking ==
    \A i \in Calls :
        IsReturn(out[i]) =>
            out[i].token.linha =
                1 + Newlines(source, IF out[i].token.tipo = EOF THEN Len(source)
                                     ELSE out[i].start)

C9_Witness ==
    /\ source = <<"{", NL, "}", "a">>
    /\ Len(out) = 1
    /\ out[1].token = Token(ID, <<"a">>, 2)

\* C10: a token that starts on ':' followed by '=' is the one token := of
\* type OPASIGNA; one that starts on '<' followed by '>' or '=', or on '>'
\* followed by '=', is the one two-character OPREL token; and ':', '<' and
\* '>' are returned as one-character tokens only when no two-character form
\* matches.  A ':' token is never followed by a '=' token adjacent to it.
C10_LongestMatch ==
    /\ \A i \in Calls :
           LET st == out[i].start
               c == CharAt(source, st)
               p == CharAt(source, st + 1)
               two == \/ c = ":" /\ p = "="
                      \/ c = "<" /\ p \in {">", "="}
                      \/ c = ">" /\ p = "="
           IN  (st >= 0 /\ c \in {":", "<", ">"}) =>
                   /\ IsReturn(out[i])
                   /\ out[i].token.tipo =
                          IF c = ":" THEN (IF two THEN OPASIGNA ELSE DOIS_PONTOS) ELSE OPREL
                   /\ out[i].token.lexema = IF two THEN <<c, p>> ELSE <<c>>
                   /\ out[i].cur.pos = IF two THEN st + 2 ELSE st + 1
    /\ \A i \in Calls :
           (i + 1 \in Calls /\ IsReturn(out[i]) /\ IsReturn(out[i + 1])) =>
               ~ /\ out[i].token.tipo = DOIS_PONTOS
                 /\ out[i + 1].token.lexema = <<"=">>
                 /\ out[i + 1].start = out[i].start + 1

C10_Witness ==
    /\ source = <<":", "=", "<", "=">>
    /\ Len(out) = 3
    /\ out[1].token.tipo = OPASIGNA
    /\ out[2].token = Token(OPREL, <<"<", "=">>, 1)
    /\ IsEOF(out[3])

\* the source characters that call i consumed for its token
Consumed(i) == SubSeq(source, out[i].start + 1, out[i].cur.pos)

HasNewline(text) == \E k \in DOMAIN text : text[k] = NL

IsTokenCall(i) == IsReturn(out[i]) /\ out[i].token.tipo # EOF

\* C11 as stated: no token spans a newline: the source characters consumed
\* for any token returned contain no newline, and the line counter at return
\* equals the line of the token.
C11_NoTokenSpansNewline ==
    \A i \in Calls :
        IsTokenCall(i) =>
            /\ ~HasNewline(Consumed(i))
            /\ out[i].cur.line = out[i].token.linha

\* C11 as amended: no token other than a quoted literal spans a newline, and
\* for those tokens the line counter at return equals the line of the token;
\* a CAR or LITERAL token may have newlines between its quotes, and the line
\* counter at return is then the line of the token plus the number of those
\* newlines.
C11_OnlyLiteralsSpanNewline ==
    \A i \in Calls :
        IsTokenCall(i) =>
            /\ out[i].token.tipo \notin {CAR, LITERAL} =>
                   /\ ~HasNewline(Consumed(i))
                   /\ out[i].cur.line = out[i].token.linha
            /\ out[i].token.tipo \in {CAR, LITERAL} =>
                   out[i].cur.line =
                       out[i].token.linha +
                       Cardinality({k \in DOMAIN Consumed(i) : Consumed(i)[k] = NL})

C11_Witness ==
    /\ source = <<QUOTE, NL, QUOTE, "a">>
    /\ Len(out) = 2
    /\ out[1].token = Token(CAR, <<NL>>, 1)
    /\ out[1].cur.line = 2
    /\ out[2].token = Token(ID, <<"a">>, 2)

\* the first offset at or after p whose character is not whitespace
RECURSIVE NextNonSpace(_, _)
NextNonSpace(s, p) ==
    IF p < Len(s) /\ s[p + 1] \in {" ", TAB, NL} THEN NextNonSpace(s, p + 1) ELSE p

\* the offset that call i reached after the whitespace and the terminated
\* comments that it skipped
ScanPoint(i) ==
    NextNonSpace(source,
                 IF out[i].comments = <<>> THEN CursorBefore(i).pos
                 ELSE out[i].comments[Len(out[i].comments)][2])

\* a '{' at offset q with no '}' after it
OpenBrace(s, q) ==
    /\ CharAt(s, q) = "{"
    /\ ~\E k \in (q + 1)..(Len(s) - 1) : s[k + 1] = "}"

\* a '(*' at offset q with no '*)' that starts at offset q + 2 or later
OpenParenStar(s, q) ==
    /\ CharAt(s, q) = "("
    /\ CharAt(s, q + 1) = "*"
    /\ ~\E k \in (q + 2)..(Len(s) - 2) : s[k + 1] = "*" /\ s[k + 2] = ")"

\* C12: a call that reaches a '{' with no '}' after it, or a '(*' with no
\* '*)' after the opener, fails with UnterminatedComment at the end of input
\* and returns no token; the call fails so in no other case; the source
\* "(*)" is unterminated.
C12_UnterminatedComment ==
    /\ \A i \in Calls :
           LET q == ScanPoint(i)
           IN  /\ (OpenBrace(source, q) \/ OpenParenStar(source, q)) <=>
                      out[i].exc = UnterminatedComment
               /\ out[i].exc = UnterminatedComment =>
                      /\ out[i].token = NoToken
                      /\ out[i].cur.pos = Len(source)
                      /\ out[i].excLine = out[i].cur.line
    /\ (source = <<"(", "*", ")">> /\ Len(out) >= 1) =>
           out[1].exc = UnterminatedComment

C12_Witness ==
    /\ source = <<"{", "}", "(", "*", ")">>
    /\ Len(out) = 1
    /\ out[1].comments = <<<<0, 2>>>>
    /\ out[1].exc = UnterminatedComment
    /\ out[1].token = NoToken
    /\ pos = 5

\* the offset of the closing quote of a literal whose content starts at
\* offset p: the first quote, reading left to right and stepping over pairs
\* of quotes, that no quote follows; -1 when the end of input comes first
RECURSIVE ClosingQuote(_, _)
ClosingQuote(s, p) ==
    IF p >= Len(s) THEN -1
    ELSE IF s[p + 1] # QUOTE THEN ClosingQuote(s, p + 1)
    ELSE IF p + 1 < Len(s) /\ s[p + 2] = QUOTE THEN ClosingQuote(s, p + 2)
    ELSE p

\* call i began the recognition of a quoted literal
IsLiteralCall(i) == out[i].start >= 0 /\ source[out[i].start + 1] = QUOTE

\* C13: a call that starts on an opening quote with the end of input before
\* any closing quote fails with UnterminatedLiteral and returns no token,
\* and a literal fails so in no other case; "'a1a" and "'''" are
\* unterminated.
C13_UnterminatedLiteral ==
    /\ \A i \in Calls :
           IsLiteralCall(i) =>
               /\ ClosingQuote(source, out[i].start + 1) = -1 <=>
                      out[i].exc = UnterminatedLiteral
               /\ out[i].exc = UnterminatedLiteral =>
                      /\ out[i].token = NoToken
                      /\ out[i].cur.pos = Len(source)
                      /\ out[i].excLine = out[i].cur.line
    /\ \A i \in Calls : out[i].exc = UnterminatedLiteral => IsLiteralCall(i)
    /\ (source \in {<<QUOTE, "a", "1", "a">>, <<QUOTE, QUOTE, QUOTE>>} /\ Len(out) >= 1) =>
           out[1].exc = UnterminatedLiteral /\ out[1].token = NoToken

C13_Witness ==
    /\ source = <<QUOTE, "a", QUOTE, QUOTE>>
    /\ Len(out) = 1
    /\ out[1].exc = UnterminatedLiteral
    /\ out[1].token = NoToken
    /\ pos = 4

\* C16: the lexeme of a CAR or LITERAL token is the source text between the
\* opening quote and the closing quote with every pair of quotes replaced by
\* one quote and every other character copied; the closing quote is the
\* first quote, stepping over pairs, that no quote follows, and the cursor
\* stops right after it.
C16_EscapeDecoding ==
    \A i \in Calls :
        (IsLiteralCall(i) /\ IsReturn(out[i])) =>
            LET close == ClosingQuote(source, out[i].start + 1)
            IN  /\ close >= out[i].start + 1
                /\ out[i].cur.pos = close + 1
                /\ out[i].token.lexema =
                       Decode(SubSeq(source, out[i].start + 2, close))

C16_Witness ==
    /\ source = <<QUOTE, "a", QUOTE, QUOTE, QUOTE>>
    /\ Len(out) >= 1
    /\ out[1].token = Token(LITERAL, <<"a", QUOTE>>, 1)
    /\ out[1].cur.pos = 5

\* the operator and punctuation characters
OperatorChars ==
    {"<", ">", "=", "+", "-", "*", "/", ";", ",", ".", ":", "(", ")", "[", "]"}

\* a character that starts a token
StartsToken(c) == IsAlpha(c) \/ c \in Digits \/ c = QUOTE \/ c \in OperatorChars

\* C14: when the character that a call reaches after whitespace and comments
\* starts no token (it is no letter, digit, quote, operator or punctuation
\* character, and no comment opener), the call fails with
\* UnexpectedCharacter on that character and its line and returns no token;
\* the call fails so in no other case.
C14_UnexpectedCharacter ==
    \A i \in Calls :
        LET q == ScanPoint(i)
            c == CharAt(source, q)
        IN  /\ (c # None /\ c # "{" /\ ~StartsToken(c)) <=>
                   out[i].exc = UnexpectedCharacter
            /\ out[i].exc = UnexpectedCharacter =>
                   /\ out[i].token = NoToken
                   /\ out[i].start = q
                   /\ out[i].cur.pos = q
                   /\ out[i].cur.current_char = c
                   /\ out[i].excLine = 1 + Newlines(source, q)

C14_Witness ==
    /\ source = <<NL, "{", "}", "@">>
    /\ Len(out) = 1
    /\ out[1].exc = UnexpectedCharacter
    /\ out[1].excLine = 2
    /\ current_char = "@"

\* C15: every call returns one token or raises; a call that returns a token
\* other than EOF leaves pos beyond the first character of the token, which
\* is at or after the pos before the call; the tokens returned begin at
\* strictly increasing offsets, each at or after the end of the one before;
\* there are at most Len(source) of them, and Len(source) + 1 calls include
\* one that returns EOF or raises.
C15_Progress ==
    /\ \A i \in Calls :
           /\ IsReturn(out[i]) <=> out[i].token # NoToken
           /\ IsTokenCall(i) =>
                  /\ CursorBefore(i).pos <= out[i].start
                  /\ out[i].start < out[i].cur.pos
                  /\ CursorBefore(i).pos < out[i].cur.pos
    /\ \A i \in Calls : \A j \in Calls :
           (i < j /\ IsTokenCall(i) /\ IsTokenCall(j)) =>
               /\ out[i].start < out[j].start
               /\ out[i].cur.pos <= out[j].start
    /\ Cardinality({i \in Calls : IsTokenCall(i)}) <= Len(source)
    /\ Len(out) > Len(source) => \E i \in 1..(Len(source) + 1) : ~IsTokenCall(i)

C15_Witness ==
    /\ source = <<"a", ".", "a", ".">>
    /\ Len(out) = 5
    /\ \A i \in 1..4 : IsTokenCall(i) /\ out[i].start = i - 1
    /\ IsEOF(out[5])

\* every character from the pos before call i to the start of its token is
\* whitespace or lies in a comment that the call skipped
OnlyBlanksSkipped(i) ==
    \A k \in CursorBefore(i).pos..(out[i].start - 1) :
        \/ source[k + 1] \in {" ", TAB, NL}
        \/ \E n \in DOMAIN out[i].comments :
               out[i].comments[n][1] <= k /\ k < out[i].comments[n][2]

\* C19: a call that fails with UnexpectedCharacter has consumed only the
\* whitespace and comments before the offending character and leaves the
\* cursor on it; every later call fails with UnexpectedCharacter at the same
\* pos and line, and none returns EOF.
C19_UnexpectedCharacterSticks ==
    \A i \in Calls :
        out[i].exc = UnexpectedCharacter =>
            /\ out[i].cur.pos = out[i].start
            /\ out[i].cur.current_char = source[out[i].start + 1]
            /\ OnlyBlanksSkipped(i)
            /\ \A j \in Calls :
                   i < j =>
                       /\ out[j].exc = UnexpectedCharacter
                       /\ out[j].token = NoToken
                       /\ out[j].cur = out[i].cur
                       /\ out[j].excLine = out[i].excLine

C19_Witness ==
    /\ source = <<"{", "}", NL, "@">>
    /\ Len(out) = 3
    /\ \A i \in 1..3 : out[i].exc = UnexpectedCharacter /\ out[i].excLine = 2
    /\ pos = 3

\* C17: a comment that a call skips starts on '{' and ends with the first
\* '}' after it, or starts on '(*' and ends with the first '*)' that begins
\* two or more characters after the '(', whatever openers, closers of the
\* other kind or quotes lie in between; the scan resumes right after the
\* closer: the next comment or the token of the call starts there or after
\* whitespace only.
C17_CommentsOpaque ==
    \A i \in Calls : \A n \in DOMAIN out[i].comments :
        LET a == out[i].comments[n][1]
            b == out[i].comments[n][2]
            resume == NextNonSpace(source, b)
        IN  /\ b <= Len(source)
            /\ \/ /\ CharAt(source, a) = "{"
                  /\ b - 1 > a
                  /\ CharAt(source, b - 1) = "}"
                  /\ \A k \in (a + 1)..(b - 2) : CharAt(source, k) # "}"
               \/ /\ CharAt(source, a) = "("
                  /\ CharAt(source, a + 1) = "*"
                  /\ b - 2 >= a + 2
                  /\ CharAt(source, b - 2) = "*"
                  /\ CharAt(source, b - 1) = ")"
                  /\ \A k \in (a + 2)..(b - 3) :
                         ~(CharAt(source, k) = "*" /\ CharAt(source, k + 1) = ")")
            /\ IF n < Len(out[i].comments)
               THEN out[i].comments[n + 1][1] = resume
               ELSE /\ out[i].start >= 0 => out[i].start = resume
                    /\ out[i].start = -1 =>
                           \/ IsEOF(out[i]) /\ resume = Len(source)
                           \/ out[i].exc = UnterminatedComment

C17_Witness ==
    /\ source = <<"(", "*", "{", "*", ")">>
    /\ Len(out) = 1
    /\ out[1].comments = <<<<0, 5>>>>
    /\ IsEOF(out[1])

\* C18: between calls 0 <= pos <= Len(source); current_char is the source
\* character at pos when pos < Len(source) and None exactly when pos is
\* Len(source); no call decreases pos; and line is 1 plus the number of
\* newlines before pos.  Since _advance moves pos by one and is the only
\* writer of pos, pos <= Len(source) after every call says that _advance was
\* never called at the end of input, where current_char is None.
C18_CursorInvariant ==
    /\ 0 <= pos /\ pos <= Len(source)
    /\ pos < Len(source) => current_char = source[pos + 1]
    /\ current_char = None <=> pos = Len(source)
    /\ line = 1 + Newlines(source, pos)
    /\ \A i \in Calls :
           /\ CursorBefore(i).pos <= out[i].cur.pos
           /\ out[i].cur.pos <= Len(source)
           /\ out[i].cur.current_char = CharAt(source, out[i].cur.pos)
           /\ out[i].cur.line = 1 + Newlines(source, out[i].cur.pos)
    /\ Len(out) >= 1 => out[Len(out)].cur = Cursor(pos, current_char, line)

C18_Witness ==
    /\ source = <<"a", NL, QUOTE, NL>>
    /\ Len(out) = 3
    /\ out[1].cur = Cursor(1, NL, 1)
    /\ out[2].exc = UnterminatedLiteral
    /\ pos = 4
    /\ current_char = None
    /\ line = 3

====
